---- MODULE Spec2Model ----
\* Model of the resource discovery registry of the google provider
\* (google/resources.go): the dispatch table `resources`, the filter compiler
\* initializeFilter and the twenty-one fetch strategies, run against a reader
\* (g.gcpr) whose listing methods answer with canned responses.
\*
\* Go strings that the code builds or takes apart are sequences of one-character
\* strings, so that formatting is real concatenation.  Fixed texts that are only
\* compared (error contexts, method names, type tags) are TLA+ strings.
EXTENDS Integers, Sequences, FiniteSets, Bags, TLC

VARIABLES resources, project, gcpr, req, out, prevOut

vars == <<resources, project, gcpr, req, out, prevOut>>

------------------------------------------------------------------------------
\* Bounds of the model.

\* longest sequence of items a listing returns (per zone for a zoned listing)
MaxItems == 2
\* most tag predicates of a filter specification
MaxTags == 2

------------------------------------------------------------------------------
\* The closed enumeration and the dispatch table.

ResourceTypes ==
    { "ComputeInstance", "ComputeFirewall", "ComputeNetwork", "ComputeHealthCheck",
      "ComputeInstanceGroup", "ComputeInstanceIAMPolicy", "ComputeBackendBucket",
      "ComputeBackendService", "ComputeSSLCertificate", "ComputeTargetHTTPProxy",
      "ComputeTargetHTTPSProxy", "ComputeURLMap", "ComputeGlobalForwardingRule",
      "ComputeForwardingRule", "ComputeDisk", "DNSManagedZone", "DNSRecordSet",
      "ProjectIAMCustomRole", "StorageBucket", "StorageBucketIAMPolicy",
      "SQLDatabaseInstance" }

\* a plausible slip in the table literal: the backend bucket entry bound to the
\* backend service strategy
resourcesTable_dup ==
    ( "ComputeInstance" :> "computeInstance" ) @@
    ( "ComputeFirewall" :> "computeFirewall" ) @@
    ( "ComputeNetwork" :> "computeNetwork" ) @@
    ( "ComputeHealthCheck" :> "computeHealthCheck" ) @@
    ( "ComputeInstanceGroup" :> "computeInstanceGroup" ) @@
    ( "ComputeInstanceIAMPolicy" :> "computeInstanceIAMPolicy" ) @@
    ( "ComputeBackendService" :> "computeBackendService" ) @@
    ( "ComputeBackendBucket" :> "computeBackendService" ) @@
    ( "ComputeSSLCertificate" :> "computeSSLCertificate" ) @@
    ( "ComputeTargetHTTPProxy" :> "computeTargetHTTPProxy" ) @@
    ( "ComputeTargetHTTPSProxy" :> "computeTargetHTTPSProxy" ) @@
    ( "ComputeURLMap" :> "computeURLMap" ) @@
    ( "ComputeGlobalForwardingRule" :> "computeGlobalForwardingRule" ) @@
    ( "ComputeForwardingRule" :> "computeForwardingRule" ) @@
    ( "ComputeDisk" :> "computeDisk" ) @@
    ( "DNSManagedZone" :> "managedZoneDNS" ) @@
    ( "DNSRecordSet" :> "recordSetDNS" ) @@
    ( "ProjectIAMCustomRole" :> "projectIAMCustomRole" ) @@
    ( "StorageBucket" :> "storageBucket" ) @@
    ( "StorageBucketIAMPolicy" :> "storageBucketIAMPolicy" ) @@
    ( "SQLDatabaseInstance" :> "sqlDatabaseInstance" )

\* var resources = map[ResourceType]rtFn{...}: a strategy is named by its function
resourcesTable ==
    ( "ComputeInstance" :> "computeInstance" ) @@
    ( "ComputeFirewall" :> "computeFirewall" ) @@
    ( "ComputeNetwork" :> "computeNetwork" ) @@
    ( "ComputeHealthCheck" :> "computeHealthCheck" ) @@
    ( "ComputeInstanceGroup" :> "computeInstanceGroup" ) @@
    ( "ComputeInstanceIAMPolicy" :> "computeInstanceIAMPolicy" ) @@
    ( "ComputeBackendService" :> "computeBackendService" ) @@
    ( "ComputeBackendBucket" :> "computeBackendBucket" ) @@
    ( "ComputeSSLCertificate" :> "computeSSLCertificate" ) @@
    ( "ComputeTargetHTTPProxy" :> "computeTargetHTTPProxy" ) @@
    ( "ComputeTargetHTTPSProxy" :> "computeTargetHTTPSProxy" ) @@
    ( "ComputeURLMap" :> "computeURLMap" ) @@
    ( "ComputeGlobalForwardingRule" :> "computeGlobalForwardingRule" ) @@
    ( "ComputeForwardingRule" :> "computeForwardingRule" ) @@
    ( "ComputeDisk" :> "computeDisk" ) @@
    ( "DNSManagedZone" :> "managedZoneDNS" ) @@
    ( "DNSRecordSet" :> "recordSetDNS" ) @@
    ( "ProjectIAMCustomRole" :> "projectIAMCustomRole" ) @@
    ( "StorageBucket" :> "storageBucket" ) @@
    ( "StorageBucketIAMPolicy" :> "storageBucketIAMPolicy" ) @@
    ( "SQLDatabaseInstance" :> "sqlDatabaseInstance" )

\* the rtFn values of the package
Strategies ==
    { "computeInstance", "computeFirewall", "computeNetwork", "computeHealthCheck",
      "computeInstanceGroup", "computeInstanceIAMPolicy", "computeBackendService",
      "computeBackendBucket", "computeSSLCertificate", "computeTargetHTTPProxy",
      "computeTargetHTTPSProxy", "computeURLMap", "computeGlobalForwardingRule",
      "computeForwardingRule", "computeDisk", "managedZoneDNS", "recordSetDNS",
      "projectIAMCustomRole", "storageBucket", "storageBucketIAMPolicy",
      "sqlDatabaseInstance" }

------------------------------------------------------------------------------
\* Values.

\* const noFilter = ""
noFilter == << >>

\* a nil error; a non-nil error is the chain of its contexts, outermost first,
\* ending in the reader's cause (errors.Wrap(err, msg) is <<msg>> \o err)
nil == << >>

\* a nil []provider.Resource (length 0)
NilResources == << >>

\* the argument list of a listing that takes only the context
NoArg == << >>

\* the error a failing listing of the reader returns
ReaderError == << "reader: rpc error" >>

\* scope keys of the zoned listings: compute zone names and managed-zone names,
\* neither of which can hold the separator "/"
Zones == { <<"y">>, <<"z">> }

\* item names the listings return; a name may hold the separator
Names == { <<"a">>, <<"a", "/", "b">> }

\* record sets of the record-set listing (Name, Type)
RRSets ==
    { [name |-> <<"w">>, type |-> <<"A">>],
      [name |-> <<"w">>, type |-> <<"M", "X">>] }

\* the project identifier of the provider
Projects == { <<"p">> }

\* filter.Tag values (Name, Value)
Tags ==
    { [Name |-> <<"e", "n", "v">>, Value |-> <<"p">>],
      [Name |-> <<"k">>, Value |-> << >>] }

\* sequences over S of length at most n
SeqUpTo(S, n) == UNION { [1..k -> S] : k \in 0..n }

\* filter.Filter.Tags
FilterSpecs == SeqUpTo(Tags, MaxTags)

\* the items of a flat listing
Items == { [name |-> n] : n \in Names }

\* the items of the managed-zone listing: a zone's name is its scope key
ZoneItems == { [name |-> z] : z \in Zones }

\* map[string][]T values over items S: a Go map has each key once
ZonedCollections(S) ==
    UNION { [Z -> SeqUpTo(S, MaxItems)] : Z \in SUBSET Zones }

\* what one listing method answers: (value, error)
Failed(v) == [val |-> v, err |-> ReaderError]
Listed(v) == [val |-> v, err |-> nil]

\* the orders in which `for k, v := range m` may visit the keys of m: Go leaves
\* the iteration order of a map unspecified
MapOrders(m) ==
    { s \in [1..Cardinality(DOMAIN m) -> DOMAIN m] :
        \A i, j \in DOMAIN s : i # j => s[i] # s[j] }

\* the two loops with a return inside the outer one: only the first key visited
\* contributes
RangeZoned_firstKey(m, order) ==
    IF order = << >>
    THEN << >>
    ELSE [i \in 1..Len(m[Head(order)]) |-> <<Head(order), m[Head(order)][i]>>]

\* the two loops with the inner one starting at the second item
RECURSIVE RangeZoned_fromSecond(_, _)
RangeZoned_fromSecond(m, order) ==
    IF order = << >>
    THEN << >>
    ELSE LET k == Head(order)
         IN  [i \in 1..(Len(m[k]) - 1) |-> <<k, m[k][i + 1]>>]
             \o RangeZoned_fromSecond(m, Tail(order))

\* for k, vs := range m { for _, v := range vs { ... } }: the (key, item) pairs in
\* the order the two loops visit them
RECURSIVE RangeZoned(_, _)
RangeZoned(m, order) ==
    IF order = << >>
    THEN << >>
    ELSE LET k == Head(order)
         IN  [i \in 1..Len(m[k]) |-> <<k, m[k][i]>>] \o RangeZoned(m, Tail(order))

------------------------------------------------------------------------------
\* The filter compiler.

\* the compiler with the groups written in reverse order
RECURSIVE initializeFilter_reversed(_)
initializeFilter_reversed(filters) ==
    IF filters = << >>
    THEN << >>
    ELSE initializeFilter_reversed(Tail(filters))
         \o <<"(", "l", "a", "b", "e", "l", "s", ".">> \o Head(filters).Name
         \o <<"=">> \o Head(filters).Value \o <<")", " ">>

\* the compiler writing nothing for a tag whose value is empty
RECURSIVE initializeFilter_skipEmpty(_)
initializeFilter_skipEmpty(filters) ==
    IF filters = << >>
    THEN << >>
    ELSE (IF Head(filters).Value = << >>
          THEN << >>
          ELSE <<"(", "l", "a", "b", "e", "l", "s", ".">> \o Head(filters).Name
               \o <<"=">> \o Head(filters).Value \o <<")", " ">>)
         \o initializeFilter_skipEmpty(Tail(filters))

\* initializeFilter: b.WriteString(fmt.Sprintf("(labels.%s=%s) ", t.Name, t.Value))
\* for each tag in order, then b.String()
RECURSIVE initializeFilter(_)
initializeFilter(filters) ==
    IF filters = << >>
    THEN << >>
    ELSE <<"(", "l", "a", "b", "e", "l", "s", ".">> \o Head(filters).Name
         \o <<"=">> \o Head(filters).Value \o <<")", " ">>
         \o initializeFilter(Tail(filters))

------------------------------------------------------------------------------
\* Identifier formats.

\* the instance identifier without its project segment, as the disk identifier is
computeInstanceID_noProject(p, z, name) == z \o <<"/">> \o name

\* fmt.Sprintf("%s/%s/%s", g.Project(), z, instance.Name)
computeInstanceID(p, z, name) == p \o <<"/">> \o z \o <<"/">> \o name

\* fmt.Sprintf("%s/%s/%s", g.Project(), z, group.Name)
computeInstanceGroupID(p, z, name) == p \o <<"/">> \o z \o <<"/">> \o name

\* fmt.Sprintf("%s/%s", z, disk.Name); the project is not part of the format
computeDiskID(z, name) == z \o <<"/">> \o name

\* the record-set identifier without the record type
recordSetID_noType(z, name, type) == z \o <<"/">> \o name

\* fmt.Sprintf("%s/%s/%s", z, rrset.Name, rrset.Type)
recordSetID(z, name, type) == z \o <<"/">> \o name \o <<"/">> \o type

\* fmt.Sprintf("projects/%s/zones/%s/instances/%s", g.Project(), zone, instance.Name)
computeInstanceIAMPolicyID(p, zone, name) ==
    <<"p", "r", "o", "j", "e", "c", "t", "s", "/">> \o p
    \o <<"/", "z", "o", "n", "e", "s", "/">> \o zone
    \o <<"/", "i", "n", "s", "t", "a", "n", "c", "e", "s", "/">> \o name

\* fmt.Sprintf("projects/%s", g.gcpr.project)
ProjectsPath(p) == <<"p", "r", "o", "j", "e", "c", "t", "s", "/">> \o p

------------------------------------------------------------------------------
\* The fetch strategies.  g is the provider: g.project and the reader g.gcpr, a
\* function from listing method to its answer.  A strategy yields the resources
\* and error it returns and the reader calls it made, in order.  `order` is the
\* order in which the range over the zoned collection visits its keys.

\* computeInstance (resources.go:86-100)
computeInstance(g, resourceType, filters, order) ==
    LET f == initializeFilter(filters)
        r == g.gcpr["ListInstances"]
        c == <<[method |-> "ListInstances", arg |-> f]>>
        zi == RangeZoned(r.val, order)
    IN  IF r.err # nil
        THEN [resources |-> NilResources,
              err |-> <<"unable to list instances from reader">> \o r.err,
              calls |-> c]
        ELSE [resources |-> [i \in 1..Len(zi) |->
                                [id |-> computeInstanceID(g.project, zi[i][1], zi[i][2].name),
                                 resourceType |-> resourceType]],
              err |-> nil,
              calls |-> c]

\* computeInstanceGroup (resources.go:141-154)
computeInstanceGroup(g, resourceType, filters, order) ==
    LET r == g.gcpr["ListInstanceGroups"]
        c == <<[method |-> "ListInstanceGroups", arg |-> noFilter]>>
        zi == RangeZoned(r.val, order)
    IN  IF r.err # nil
        THEN [resources |-> NilResources,
              err |-> <<"unable to list instance groups from reader">> \o r.err,
              calls |-> c]
        ELSE [resources |-> [i \in 1..Len(zi) |->
                                [id |-> computeInstanceGroupID(g.project, zi[i][1], zi[i][2].name),
                                 resourceType |-> resourceType]],
              err |-> nil,
              calls |-> c]

\* computeDisk (resources.go:249-263)
computeDisk(g, resourceType, filters, order) ==
    LET f == initializeFilter(filters)
        r == g.gcpr["ListDisks"]
        c == <<[method |-> "ListDisks", arg |-> f]>>
        zi == RangeZoned(r.val, order)
    IN  IF r.err # nil
        THEN [resources |-> NilResources,
              err |-> <<"unable to list disks from reader">> \o r.err,
              calls |-> c]
        ELSE [resources |-> [i \in 1..Len(zi) |->
                                [id |-> computeDiskID(zi[i][1], zi[i][2].name),
                                 resourceType |-> resourceType]],
              err |-> nil,
              calls |-> c]

\* computeInstanceIAMPolicy (resources.go:370-384)
computeInstanceIAMPolicy(g, resourceType, filters, order) ==
    LET f == initializeFilter(filters)
        r == g.gcpr["ListInstances"]
        c == <<[method |-> "ListInstances", arg |-> f]>>
        zi == RangeZoned(r.val, order)
    IN  IF r.err # nil
        THEN [resources |-> NilResources,
              err |-> <<"unable to list compute instances from reader">> \o r.err,
              calls |-> c]
        ELSE [resources |-> [i \in 1..Len(zi) |->
                                [id |-> computeInstanceIAMPolicyID(g.project, zi[i][1], zi[i][2].name),
                                 resourceType |-> resourceType]],
              err |-> nil,
              calls |-> c]

\* computeFirewall (resources.go:102-113): one ListFirewalls call; on error nil resources and
\* the wrapped error, otherwise one resource per item, identified by its name.
computeFirewall(g, resourceType, filters) ==
    LET r == g.gcpr["ListFirewalls"]
        c == <<[method |-> "ListFirewalls", arg |-> noFilter]>>
    IN  IF r.err # nil
        THEN [resources |-> NilResources,
              err |-> <<"unable to list firewalls from reader">> \o r.err,
              calls |-> c]
        ELSE [resources |-> [i \in 1..Len(r.val) |->
                                [id |-> r.val[i].name, resourceType |-> resourceType]],
              err |-> nil,
              calls |-> c]

\* computeNetwork (resources.go:115-126): one ListNetworks call; on error nil resources and
\* the wrapped error, otherwise one resource per item, identified by its name.
computeNetwork(g, resourceType, filters) ==
    LET r == g.gcpr["ListNetworks"]
        c == <<[method |-> "ListNetworks", arg |-> noFilter]>>
    IN  IF r.err # nil
        THEN [resources |-> NilResources,
              err |-> <<"unable to list networks from reader">> \o r.err,
              calls |-> c]
        ELSE [resources |-> [i \in 1..Len(r.val) |->
                                [id |-> r.val[i].name, resourceType |-> resourceType]],
              err |-> nil,
              calls |-> c]

\* computeHealthCheck (resources.go:128-139): one ListHealthChecks call; on error nil resources and
\* the wrapped error, otherwise one resource per item, identified by its name.
computeHealthCheck(g, resourceType, filters) ==
    LET r == g.gcpr["ListHealthChecks"]
        c == <<[method |-> "ListHealthChecks", arg |-> noFilter]>>
    IN  IF r.err # nil
        THEN [resources |-> NilResources,
              err |-> <<"unable to list health checks from reader">> \o r.err,
              calls |-> c]
        ELSE [resources |-> [i \in 1..Len(r.val) |->
                                [id |-> r.val[i].name, resourceType |-> resourceType]],
              err |-> nil,
              calls |-> c]

\* computeBackendService (resources.go:156-167): one ListBackendServices call; on error nil resources and
\* the wrapped error, otherwise one resource per item, identified by its name.
computeBackendService(g, resourceType, filters) ==
    LET r == g.gcpr["ListBackendServices"]
        c == <<[method |-> "ListBackendServices", arg |-> noFilter]>>
    IN  IF r.err # nil
        THEN [resources |-> NilResources,
              err |-> <<"unable to list backend services from reader">> \o r.err,
              calls |-> c]
        ELSE [resources |-> [i \in 1..Len(r.val) |->
                                [id |-> r.val[i].name, resourceType |-> resourceType]],
              err |-> nil,
              calls |-> c]

\* computeURLMap (resources.go:169-180): one ListURLMaps call; on error nil resources and
\* the wrapped error, otherwise one resource per item, identified by its name.
computeURLMap(g, resourceType, filters) ==
    LET r == g.gcpr["ListURLMaps"]
        c == <<[method |-> "ListURLMaps", arg |-> noFilter]>>
    IN  IF r.err # nil
        THEN [resources |-> NilResources,
              err |-> <<"unable to list URL maps from reader">> \o r.err,
              calls |-> c]
        ELSE [resources |-> [i \in 1..Len(r.val) |->
                                [id |-> r.val[i].name, resourceType |-> resourceType]],
              err |-> nil,
              calls |-> c]

\* computeTargetHTTPProxy (resources.go:182-193): one ListTargetHTTPProxies call; on error nil resources and
\* the wrapped error, otherwise one resource per item, identified by its name.
computeTargetHTTPProxy(g, resourceType, filters) ==
    LET r == g.gcpr["ListTargetHTTPProxies"]
        c == <<[method |-> "ListTargetHTTPProxies", arg |-> noFilter]>>
    IN  IF r.err # nil
        THEN [resources |-> NilResources,
              err |-> <<"unable to list target http proxies from reader">> \o r.err,
              calls |-> c]
        ELSE [resources |-> [i \in 1..Len(r.val) |->
                                [id |-> r.val[i].name, resourceType |-> resourceType]],
              err |-> nil,
              calls |-> c]

\* computeTargetHTTPSProxy (resources.go:195-206): one ListTargetHTTPSProxies call; on error nil resources and
\* the wrapped error, otherwise one resource per item, identified by its name.
computeTargetHTTPSProxy(g, resourceType, filters) ==
    LET r == g.gcpr["ListTargetHTTPSProxies"]
        c == <<[method |-> "ListTargetHTTPSProxies", arg |-> noFilter]>>
    IN  IF r.err # nil
        THEN [resources |-> NilResources,
              err |-> <<"unable to list target https proxies from reader">> \o r.err,
              calls |-> c]
        ELSE [resources |-> [i \in 1..Len(r.val) |->
                                [id |-> r.val[i].name, resourceType |-> resourceType]],
              err |-> nil,
              calls |-> c]

\* computeSSLCertificate (resources.go:208-219): one ListSSLCertificates call; on error nil resources and
\* the wrapped error, otherwise one resource per item, identified by its name.
computeSSLCertificate(g, resourceType, filters) ==
    LET r == g.gcpr["ListSSLCertificates"]
        c == <<[method |-> "ListSSLCertificates", arg |-> noFilter]>>
    IN  IF r.err # nil
        THEN [resources |-> NilResources,
              err |-> <<"unable to list SSL certificates from reader">> \o r.err,
              calls |-> c]
        ELSE [resources |-> [i \in 1..Len(r.val) |->
                                [id |-> r.val[i].name, resourceType |-> resourceType]],
              err |-> nil,
              calls |-> c]

\* computeGlobalForwardingRule (resources.go:221-233): one ListGlobalForwardingRules call; on error nil resources and
\* the wrapped error, otherwise one resource per item, identified by its name.
computeGlobalForwardingRule(g, resourceType, filters) ==
    LET r == g.gcpr["ListGlobalForwardingRules"]
        c == <<[method |-> "ListGlobalForwardingRules", arg |-> initializeFilter(filters)]>>
    IN  IF r.err # nil
        THEN [resources |-> NilResources,
              err |-> <<"unable to list global forwarding rules from reader">> \o r.err,
              calls |-> c]
        ELSE [resources |-> [i \in 1..Len(r.val) |->
                                [id |-> r.val[i].name, resourceType |-> resourceType]],
              err |-> nil,
              calls |-> c]

\* computeForwardingRule (resources.go:235-247): one ListForwardingRules call; on error nil resources and
\* the wrapped error, otherwise one resource per item, identified by its name.
computeForwardingRule(g, resourceType, filters) ==
    LET r == g.gcpr["ListForwardingRules"]
        c == <<[method |-> "ListForwardingRules", arg |-> initializeFilter(filters)]>>
    IN  IF r.err # nil
        THEN [resources |-> NilResources,
              err |-> <<"unable to list global forwarding rules from reader">> \o r.err,
              calls |-> c]
        ELSE [resources |-> [i \in 1..Len(r.val) |->
                                [id |-> r.val[i].name, resourceType |-> resourceType]],
              err |-> nil,
              calls |-> c]

\* storageBucket (resources.go:265-276): one ListBuckets call; on error nil resources and
\* the wrapped error, otherwise one resource per item, identified by its name.
storageBucket(g, resourceType, filters) ==
    LET r == g.gcpr["ListBuckets"]
        c == <<[method |-> "ListBuckets", arg |-> NoArg]>>
    IN  IF r.err # nil
        THEN [resources |-> NilResources,
              err |-> <<"unable to list global forwarding rules from reader">> \o r.err,
              calls |-> c]
        ELSE [resources |-> [i \in 1..Len(r.val) |->
                                [id |-> r.val[i].name, resourceType |-> resourceType]],
              err |-> nil,
              calls |-> c]

\* sqlDatabaseInstance (resources.go:278-289): one ListStorageInstances call; on error nil resources and
\* the wrapped error, otherwise one resource per item, identified by its name.
sqlDatabaseInstance(g, resourceType, filters) ==
    LET r == g.gcpr["ListStorageInstances"]
        c == <<[method |-> "ListStorageInstances", arg |-> noFilter]>>
    IN  IF r.err # nil
        THEN [resources |-> NilResources,
              err |-> <<"unable to list sql storage instances rules from reader">> \o r.err,
              calls |-> c]
        ELSE [resources |-> [i \in 1..Len(r.val) |->
                                [id |-> r.val[i].name, resourceType |-> resourceType]],
              err |-> nil,
              calls |-> c]

\* managedZoneDNS (resources.go:291-302): one ListManagedZones call; on error nil resources and
\* the wrapped error, otherwise one resource per item, identified by its name.
managedZoneDNS(g, resourceType, filters) ==
    LET r == g.gcpr["ListManagedZones"]
        c == <<[method |-> "ListManagedZones", arg |-> NoArg]>>
    IN  IF r.err # nil
        THEN [resources |-> NilResources,
              err |-> <<"unable to list DNS managed zone from reader">> \o r.err,
              calls |-> c]
        ELSE [resources |-> [i \in 1..Len(r.val) |->
                                [id |-> r.val[i].name, resourceType |-> resourceType]],
              err |-> nil,
              calls |-> c]

\* computeBackendBucket (resources.go:327-338): one ListBackendBuckets call; on error nil resources and
\* the wrapped error, otherwise one resource per item, identified by its name.
computeBackendBucket(g, resourceType, filters) ==
    LET r == g.gcpr["ListBackendBuckets"]
        c == <<[method |-> "ListBackendBuckets", arg |-> noFilter]>>
    IN  IF r.err # nil
        THEN [resources |-> NilResources,
              err |-> <<"unable to list backend buckets from reader">> \o r.err,
              calls |-> c]
        ELSE [resources |-> [i \in 1..Len(r.val) |->
                                [id |-> r.val[i].name, resourceType |-> resourceType]],
              err |-> nil,
              calls |-> c]

\* projectIAMCustomRole (resources.go:340-351): one ListProjectIAMCustomRoles call; on error nil resources and
\* the wrapped error, otherwise one resource per item, identified by its name.
projectIAMCustomRole(g, resourceType, filters) ==
    LET r == g.gcpr["ListProjectIAMCustomRoles"]
        c == <<[method |-> "ListProjectIAMCustomRoles", arg |-> ProjectsPath(g.project)]>>
    IN  IF r.err # nil
        THEN [resources |-> NilResources,
              err |-> <<"unable to list project IAM custom roles from reader">> \o r.err,
              calls |-> c]
        ELSE [resources |-> [i \in 1..Len(r.val) |->
                                [id |-> r.val[i].name, resourceType |-> resourceType]],
              err |-> nil,
              calls |-> c]

\* storageBucketIAMPolicy (resources.go:355-366): one ListBuckets call; on error nil resources and
\* the wrapped error, otherwise one resource per item, identified by its name.
storageBucketIAMPolicy(g, resourceType, filters) ==
    LET r == g.gcpr["ListBuckets"]
        c == <<[method |-> "ListBuckets", arg |-> NoArg]>>
    IN  IF r.err # nil
        THEN [resources |-> NilResources,
              err |-> <<"unable to list bucket policies custom roles from reader">> \o r.err,
              calls |-> c]
        ELSE [resources |-> [i \in 1..Len(r.val) |->
                                [id |-> r.val[i].name, resourceType |-> resourceType]],
              err |-> nil,
              calls |-> c]
\* the strategy going on to the record-set listing although the managed zones
\* could not be listed
recordSetDNS_ignoreStageOne(g, resourceType, filters, order) ==
    LET mz == managedZoneDNS(g, resourceType, filters)
        zones == [i \in 1..Len(mz.resources) |-> mz.resources[i].id]
        r == g.gcpr["ListResourceRecordSets"]
        c == mz.calls \o <<[method |-> "ListResourceRecordSets", arg |-> zones]>>
        zi == RangeZoned(r.val, order)
    IN  IF r.err # nil
        THEN [resources |-> NilResources,
              err |-> <<"unable to list resources record se record sett from reader">> \o r.err,
              calls |-> c]
        ELSE [resources |-> [i \in 1..Len(zi) |->
                                [id |-> recordSetID(zi[i][1], zi[i][2].name, zi[i][2].type),
                                 resourceType |-> resourceType]],
              err |-> nil,
              calls |-> c]

\* the strategy returning early, without the record-set listing, when there is
\* no managed zone
recordSetDNS_skipWhenNoZone(g, resourceType, filters, order) ==
    LET mz == managedZoneDNS(g, resourceType, filters)
        zones == [i \in 1..Len(mz.resources) |-> mz.resources[i].id]
        r == g.gcpr["ListResourceRecordSets"]
        c == mz.calls \o <<[method |-> "ListResourceRecordSets", arg |-> zones]>>
        zi == RangeZoned(r.val, order)
    IN  IF mz.err # nil
        THEN [resources |-> NilResources,
              err |-> <<"unable to previously fetch managed zones">> \o mz.err,
              calls |-> mz.calls]
        ELSE IF zones = << >>
        THEN [resources |-> << >>, err |-> nil, calls |-> mz.calls]
        ELSE IF r.err # nil
        THEN [resources |-> NilResources,
              err |-> <<"unable to list resources record se record sett from reader">> \o r.err,
              calls |-> c]
        ELSE [resources |-> [i \in 1..Len(zi) |->
                                [id |-> recordSetID(zi[i][1], zi[i][2].name, zi[i][2].type),
                                 resourceType |-> resourceType]],
              err |-> nil,
              calls |-> c]

\* recordSetDNS (resources.go:304-325): stage one is managedZoneDNS, called with
\* the record-set type; stage two lists the record sets of the zones' IDs
recordSetDNS(g, resourceType, filters, order) ==
    LET mz == managedZoneDNS(g, resourceType, filters)
        zones == [i \in 1..Len(mz.resources) |-> mz.resources[i].id]
        r == g.gcpr["ListResourceRecordSets"]
        c == mz.calls \o <<[method |-> "ListResourceRecordSets", arg |-> zones]>>
        zi == RangeZoned(r.val, order)
    IN  IF mz.err # nil
        THEN [resources |-> NilResources,
              err |-> <<"unable to previously fetch managed zones">> \o mz.err,
              calls |-> mz.calls]
        ELSE IF r.err # nil
        THEN [resources |-> NilResources,
              err |-> <<"unable to list resources record se record sett from reader">> \o r.err,
              calls |-> c]
        ELSE [resources |-> [i \in 1..Len(zi) |->
                                [id |-> recordSetID(zi[i][1], zi[i][2].name, zi[i][2].type),
                                 resourceType |-> resourceType]],
              err |-> nil,
              calls |-> c]

------------------------------------------------------------------------------
\* The reader and the runs.

\* the reader methods a strategy calls, in the order it calls them
Listings ==
    ( "computeInstance" :> <<"ListInstances">> ) @@
    ( "computeFirewall" :> <<"ListFirewalls">> ) @@
    ( "computeNetwork" :> <<"ListNetworks">> ) @@
    ( "computeHealthCheck" :> <<"ListHealthChecks">> ) @@
    ( "computeInstanceGroup" :> <<"ListInstanceGroups">> ) @@
    ( "computeInstanceIAMPolicy" :> <<"ListInstances">> ) @@
    ( "computeBackendService" :> <<"ListBackendServices">> ) @@
    ( "computeBackendBucket" :> <<"ListBackendBuckets">> ) @@
    ( "computeSSLCertificate" :> <<"ListSSLCertificates">> ) @@
    ( "computeTargetHTTPProxy" :> <<"ListTargetHTTPProxies">> ) @@
    ( "computeTargetHTTPSProxy" :> <<"ListTargetHTTPSProxies">> ) @@
    ( "computeURLMap" :> <<"ListURLMaps">> ) @@
    ( "computeGlobalForwardingRule" :> <<"ListGlobalForwardingRules">> ) @@
    ( "computeForwardingRule" :> <<"ListForwardingRules">> ) @@
    ( "computeDisk" :> <<"ListDisks">> ) @@
    ( "managedZoneDNS" :> <<"ListManagedZones">> ) @@
    ( "recordSetDNS" :> <<"ListManagedZones", "ListResourceRecordSets">> ) @@
    ( "projectIAMCustomRole" :> <<"ListProjectIAMCustomRoles">> ) @@
    ( "storageBucket" :> <<"ListBuckets">> ) @@
    ( "storageBucketIAMPolicy" :> <<"ListBuckets">> ) @@
    ( "sqlDatabaseInstance" :> <<"ListStorageInstances">> )

\* the answers a listing method of the reader can give: a failure, or a value of
\* the shape the strategy ranges over
ReaderAnswers(m) ==
    CASE m \in {"ListInstances", "ListInstanceGroups", "ListDisks"} ->
            {Failed(<< >>)} \cup {Listed(v) : v \in ZonedCollections(Items)}
      [] m = "ListResourceRecordSets" ->
            {Failed(<< >>)} \cup {Listed(v) : v \in ZonedCollections(RRSets)}
      [] m = "ListManagedZones" ->
            {Failed(<< >>)} \cup {Listed(v) : v \in SeqUpTo(ZoneItems, MaxItems)}
      [] OTHER ->
            {Failed(<< >>)} \cup {Listed(v) : v \in SeqUpTo(Items, MaxItems)}

\* no run yet: a run makes at least one reader call
NoRun == [resources |-> NilResources, err |-> nil, calls |-> << >>]

\* no discover call yet
NoRequest == [rt |-> "", filters |-> << >>]

\* the provider handed to a strategy
G == [project |-> project, gcpr |-> gcpr]

\* after package initialisation: the table is built, nothing was discovered
Init ==
    /\ resources = resourcesTable
    /\ project = <<"p">>
    /\ gcpr = << >>
    /\ req = NoRequest
    /\ out = NoRun
    /\ prevOut = NoRun

\* a caller sets up a discovery: a resource type, a filter, a project and the
\* reader's answers to the listings the bound strategy calls
NewSession ==
    /\ req = NoRequest
    /\ \E rt \in DOMAIN resources, f \in FilterSpecs, p \in Projects :
        LET ms == Listings[resources[rt]]
        IN  /\ \E a \in ReaderAnswers(ms[1]) :
                 \E b \in (IF Len(ms) = 2 THEN ReaderAnswers(ms[2]) ELSE {a}) :
                     gcpr' = IF Len(ms) = 2
                             THEN (ms[1] :> a) @@ (ms[2] :> b)
                             ELSE (ms[1] :> a)
            /\ req' = [rt |-> rt, filters |-> f]
            /\ project' = p
            /\ out' = NoRun
            /\ prevOut' = NoRun
            /\ UNCHANGED resources

\* the caller is done with the handles of this discovery; the next discovery
\* starts from a fresh request and reader
EndSession ==
    /\ req # NoRequest
    /\ req' = NoRequest
    /\ project' = <<"p">>
    /\ gcpr' = << >>
    /\ out' = NoRun
    /\ prevOut' = NoRun
    /\ UNCHANGED resources

\* the lookup resources[rt] of the caller selects the strategy fn
Dispatch(fn) ==
    /\ req.rt \in DOMAIN resources
    /\ resources[req.rt] = fn

DiscoverComputeInstance ==
    /\ Dispatch("computeInstance")
    /\ \E order \in MapOrders(gcpr["ListInstances"].val) :
          out' = computeInstance(G, req.rt, req.filters, order)
    /\ prevOut' = out
    /\ UNCHANGED <<resources, project, gcpr, req>>

DiscoverComputeInstanceGroup ==
    /\ Dispatch("computeInstanceGroup")
    /\ \E order \in MapOrders(gcpr["ListInstanceGroups"].val) :
          out' = computeInstanceGroup(G, req.rt, req.filters, order)
    /\ prevOut' = out
    /\ UNCHANGED <<resources, project, gcpr, req>>

DiscoverComputeDisk ==
    /\ Dispatch("computeDisk")
    /\ \E order \in MapOrders(gcpr["ListDisks"].val) :
          out' = computeDisk(G, req.rt, req.filters, order)
    /\ prevOut' = out
    /\ UNCHANGED <<resources, project, gcpr, req>>

DiscoverComputeInstanceIAMPolicy ==
    /\ Dispatch("computeInstanceIAMPolicy")
    /\ \E order \in MapOrders(gcpr["ListInstances"].val) :
          out' = computeInstanceIAMPolicy(G, req.rt, req.filters, order)
    /\ prevOut' = out
    /\ UNCHANGED <<resources, project, gcpr, req>>

DiscoverRecordSetDNS ==
    /\ Dispatch("recordSetDNS")
    /\ \E order \in MapOrders(gcpr["ListResourceRecordSets"].val) :
          out' = recordSetDNS(G, req.rt, req.filters, order)
    /\ prevOut' = out
    /\ UNCHANGED <<resources, project, gcpr, req>>

DiscoverComputeFirewall ==
    /\ Dispatch("computeFirewall")
    /\ out' = computeFirewall(G, req.rt, req.filters)
    /\ prevOut' = out
    /\ UNCHANGED <<resources, project, gcpr, req>>

DiscoverComputeNetwork ==
    /\ Dispatch("computeNetwork")
    /\ out' = computeNetwork(G, req.rt, req.filters)
    /\ prevOut' = out
    /\ UNCHANGED <<resources, project, gcpr, req>>

DiscoverComputeHealthCheck ==
    /\ Dispatch("computeHealthCheck")
    /\ out' = computeHealthCheck(G, req.rt, req.filters)
    /\ prevOut' = out
    /\ UNCHANGED <<resources, project, gcpr, req>>

DiscoverComputeBackendService ==
    /\ Dispatch("computeBackendService")
    /\ out' = computeBackendService(G, req.rt, req.filters)
    /\ prevOut' = out
    /\ UNCHANGED <<resources, project, gcpr, req>>

DiscoverComputeURLMap ==
    /\ Dispatch("computeURLMap")
    /\ out' = computeURLMap(G, req.rt, req.filters)
    /\ prevOut' = out
    /\ UNCHANGED <<resources, project, gcpr, req>>

DiscoverComputeTargetHTTPProxy ==
    /\ Dispatch("computeTargetHTTPProxy")
    /\ out' = computeTargetHTTPProxy(G, req.rt, req.filters)
    /\ prevOut' = out
    /\ UNCHANGED <<resources, project, gcpr, req>>

DiscoverComputeTargetHTTPSProxy ==
    /\ Dispatch("computeTargetHTTPSProxy")
    /\ out' = computeTargetHTTPSProxy(G, req.rt, req.filters)
    /\ prevOut' = out
    /\ UNCHANGED <<resources, project, gcpr, req>>

DiscoverComputeSSLCertificate ==
    /\ Dispatch("computeSSLCertificate")
    /\ out' = computeSSLCertificate(G, req.rt, req.filters)
    /\ prevOut' = out
    /\ UNCHANGED <<resources, project, gcpr, req>>

DiscoverComputeGlobalForwardingRule ==
    /\ Dispatch("computeGlobalForwardingRule")
    /\ out' = computeGlobalForwardingRule(G, req.rt, req.filters)
    /\ prevOut' = out
    /\ UNCHANGED <<resources, project, gcpr, req>>

DiscoverComputeForwardingRule ==
    /\ Dispatch("computeForwardingRule")
    /\ out' = computeForwardingRule(G, req.rt, req.filters)
    /\ prevOut' = out
    /\ UNCHANGED <<resources, project, gcpr, req>>

DiscoverStorageBucket ==
    /\ Dispatch("storageBucket")
    /\ out' = storageBucket(G, req.rt, req.filters)
    /\ prevOut' = out
    /\ UNCHANGED <<resources, project, gcpr, req>>

DiscoverSqlDatabaseInstance ==
    /\ Dispatch("sqlDatabaseInstance")
    /\ out' = sqlDatabaseInstance(G, req.rt, req.filters)
    /\ prevOut' = out
    /\ UNCHANGED <<resources, project, gcpr, req>>

DiscoverManagedZoneDNS ==
    /\ Dispatch("managedZoneDNS")
    /\ out' = managedZoneDNS(G, req.rt, req.filters)
    /\ prevOut' = out
    /\ UNCHANGED <<resources, project, gcpr, req>>

DiscoverComputeBackendBucket ==
    /\ Dispatch("computeBackendBucket")
    /\ out' = computeBackendBucket(G, req.rt, req.filters)
    /\ prevOut' = out
    /\ UNCHANGED <<resources, project, gcpr, req>>

DiscoverProjectIAMCustomRole ==
    /\ Dispatch("projectIAMCustomRole")
    /\ out' = projectIAMCustomRole(G, req.rt, req.filters)
    /\ prevOut' = out
    /\ UNCHANGED <<resources, project, gcpr, req>>

DiscoverStorageBucketIAMPolicy ==
    /\ Dispatch("storageBucketIAMPolicy")
    /\ out' = storageBucketIAMPolicy(G, req.rt, req.filters)
    /\ prevOut' = out
    /\ UNCHANGED <<resources, project, gcpr, req>>

Next ==
    \/ NewSession
    \/ EndSession
    \/ DiscoverComputeInstance
    \/ DiscoverComputeInstanceGroup
    \/ DiscoverComputeDisk
    \/ DiscoverComputeInstanceIAMPolicy
    \/ DiscoverRecordSetDNS
    \/ DiscoverComputeFirewall
    \/ DiscoverComputeNetwork
    \/ DiscoverComputeHealthCheck
    \/ DiscoverComputeBackendService
    \/ DiscoverComputeURLMap
    \/ DiscoverComputeTargetHTTPProxy
    \/ DiscoverComputeTargetHTTPSProxy
    \/ DiscoverComputeSSLCertificate
    \/ DiscoverComputeGlobalForwardingRule
    \/ DiscoverComputeForwardingRule
    \/ DiscoverStorageBucket
    \/ DiscoverSqlDatabaseInstance
    \/ DiscoverManagedZoneDNS
    \/ DiscoverComputeBackendBucket
    \/ DiscoverProjectIAMCustomRole
    \/ DiscoverStorageBucketIAMPolicy

Spec == Init /\ [][Next]_vars

------------------------------------------------------------------------------
\* Vocabulary of the properties.

\* o is the outcome of a run
Ran(o) == o.calls # << >>

\* the strategy bound to the requested type
Bound == resources[req.rt]

\* the listing method m was invoked in the run with outcome o
Invoked(o, m) == \E i \in DOMAIN o.calls : o.calls[i].method = m

\* the invocations of m in the run with outcome o
Invocations(o, m) == { i \in DOMAIN o.calls : o.calls[i].method = m }

\* every listing of the reader of this run answers without error
ReaderListed == \A m \in DOMAIN gcpr : gcpr[m].err = nil

\* the strategies that range over a zoned collection, and the listing it is from
ScopePartitioned ==
    { "computeInstance", "computeInstanceGroup", "computeDisk",
      "computeInstanceIAMPolicy", "recordSetDNS" }

\* the strategies that pass the compiled filter to their listing
Filtering ==
    { "computeInstance", "computeGlobalForwardingRule", "computeForwardingRule",
      "computeDisk", "computeInstanceIAMPolicy" }

\* the value the last listing of the bound strategy answered with
Upstream == gcpr[Listings[Bound][Len(Listings[Bound])]].val

\* the number of items of a zoned collection
RECURSIVE TotalItems(_, _)
TotalItems(m, Z) ==
    IF Z = {}
    THEN 0
    ELSE LET z == CHOOSE k \in Z : TRUE
         IN  Len(m[z]) + TotalItems(m, Z \ {z})

\* how many resources of o carry the identifier id
Carrying(o, id) == Cardinality({ i \in DOMAIN o.resources : o.resources[i].id = id })

\* the identifiers of the resources of o
Identifiers(o) == { o.resources[i].id : i \in DOMAIN o.resources }

\* one group of the compiled filter
Group(t) ==
    <<"(", "l", "a", "b", "e", "l", "s", ".">> \o t.Name \o <<"=">> \o t.Value \o <<")">>

\* the groups of the tags, in order, with one space between consecutive groups
RECURSIVE JoinGroups(_)
JoinGroups(ts) ==
    IF ts = << >>
    THEN << >>
    ELSE IF Len(ts) = 1
    THEN Group(ts[1])
    ELSE Group(ts[1]) \o <<" ">> \o JoinGroups(Tail(ts))

\* the fragment the run passed to its listing
Fragment == out.calls[1].arg

------------------------------------------------------------------------------
\* C1: when the managed-zone listing fails, recordSetDNS returns a failure whose
\* context is that of the managed-zone stage (not the record-set context),
\* returns no resources, and never invokes ListResourceRecordSets.
T_C1 ==
    (Ran(out) /\ Bound = "recordSetDNS" /\ gcpr["ListManagedZones"].err # nil)
    => /\ out.err # nil
       /\ out.err[1] = "unable to previously fetch managed zones"
       /\ out.err[2] = "unable to list DNS managed zone from reader"
       /\ \A i \in DOMAIN out.err :
            out.err[i] # "unable to list resources record se record sett from reader"
       /\ Len(out.resources) = 0
       /\ ~Invoked(out, "ListResourceRecordSets")

W_C1 ==
    /\ Ran(out)
    /\ Bound = "recordSetDNS"
    /\ gcpr["ListManagedZones"].err # nil
    /\ gcpr["ListResourceRecordSets"].err = nil
    /\ out.err # nil

\* C2: when the managed-zone listing answers with no zone, recordSetDNS still
\* invokes ListResourceRecordSets exactly once, with an empty zone list, and when
\* that answers with no record set the result is empty and there is no failure.
T_C2 ==
    (Ran(out) /\ Bound = "recordSetDNS"
       /\ gcpr["ListManagedZones"].err = nil /\ gcpr["ListManagedZones"].val = << >>)
    => /\ Cardinality(Invocations(out, "ListResourceRecordSets")) = 1
       /\ \A i \in Invocations(out, "ListResourceRecordSets") : out.calls[i].arg = << >>
       /\ (gcpr["ListResourceRecordSets"].err = nil
             /\ \A z \in DOMAIN gcpr["ListResourceRecordSets"].val :
                    gcpr["ListResourceRecordSets"].val[z] = << >>)
          => (out.resources = << >> /\ out.err = nil)

W_C2 ==
    /\ Ran(out)
    /\ Bound = "recordSetDNS"
    /\ gcpr["ListManagedZones"].err = nil
    /\ gcpr["ListManagedZones"].val = << >>
    /\ gcpr["ListResourceRecordSets"].err = nil
    /\ DOMAIN gcpr["ListResourceRecordSets"].val = {}
    /\ out.err = nil

\* C3, as claimed: for a non-empty filter the fragment is the groups in input
\* order joined by single spaces, with nothing after the last group.
CE_C3 ==
    (Ran(out) /\ Bound \in Filtering /\ req.filters # << >>)
    => Fragment = JoinGroups(req.filters)

\* C3, amended: for a non-empty filter the fragment is the groups in input order,
\* each followed by one space: a single space between consecutive groups, nothing
\* before the first, and one space after the last.
T_C3 ==
    (Ran(out) /\ Bound \in Filtering /\ req.filters # << >>)
    => Fragment = JoinGroups(req.filters) \o <<" ">>

W_C3 ==
    /\ Ran(out)
    /\ Bound \in Filtering
    /\ Len(req.filters) >= 2
    /\ req.filters[1] # req.filters[2]

\* C4: the fragment is the empty string, the noFilter the unfiltered strategies
\* pass, exactly when the filter has no tag.
T_C4 ==
    /\ (Ran(out) /\ Bound \in Filtering)
         => (Fragment = noFilter <=> req.filters = << >>)
    /\ (Ran(out) /\ Bound = "computeInstanceGroup") => Fragment = noFilter

W_C4 ==
    /\ Ran(out)
    /\ Bound \in Filtering
    /\ req.filters = << >>
    /\ Fragment = noFilter

\* C5: when the reader answers without error, a scope-partitioned strategy
\* succeeds and returns as many resources as the zoned collection has items, a
\* zone with no item contributing none.
T_C5 ==
    (Ran(out) /\ Bound \in ScopePartitioned /\ ReaderListed)
    => /\ out.err = nil
       /\ Len(out.resources) = TotalItems(Upstream, DOMAIN Upstream)

W_C5 ==
    /\ Ran(out)
    /\ Bound \in ScopePartitioned
    /\ ReaderListed
    /\ \E z \in DOMAIN Upstream : Upstream[z] = << >>
    /\ \E z \in DOMAIN Upstream : Len(Upstream[z]) = MaxItems
    /\ out.err = nil

\* the identifier C6 states for the item named n of zone z
StatedIdentifier(fn, z, n) ==
    CASE fn \in {"computeInstance", "computeInstanceGroup"} ->
            project \o <<"/">> \o z \o <<"/">> \o n
      [] fn = "computeDisk" ->
            z \o <<"/">> \o n
      [] fn = "computeInstanceIAMPolicy" ->
            <<"p", "r", "o", "j", "e", "c", "t", "s", "/">> \o project
            \o <<"/", "z", "o", "n", "e", "s", "/">> \o z
            \o <<"/", "i", "n", "s", "t", "a", "n", "c", "e", "s", "/">> \o n

\* the (zone, position) pairs of a zoned collection whose stated identifier is id
StatedFor(fn, m, id) ==
    { p \in UNION { {<<z, i>> : i \in DOMAIN m[z]} : z \in DOMAIN m } :
        StatedIdentifier(fn, p[1], m[p[1]][p[2]].name) = id }

\* C6: the resources of the instance, instance-group, disk and instance-IAM-policy
\* strategies are exactly, pair for pair, the (zone, item) pairs of the listing,
\* each under its identifier scheme and with the requested type tag; so the
\* instance and the IAM-policy strategies cover the same pairs of ListInstances.
T_C6 ==
    (Ran(out) /\ ReaderListed
       /\ Bound \in {"computeInstance", "computeInstanceGroup", "computeDisk",
                     "computeInstanceIAMPolicy"})
    => /\ \A i \in DOMAIN out.resources :
            /\ out.resources[i].resourceType = req.rt
            /\ StatedFor(Bound, Upstream, out.resources[i].id) # {}
       /\ \A z \in DOMAIN Upstream : \A i \in DOMAIN Upstream[z] :
            LET id == StatedIdentifier(Bound, z, Upstream[z][i].name)
            IN  Carrying(out, id) = Cardinality(StatedFor(Bound, Upstream, id))

W_C6 ==
    /\ Ran(out)
    /\ ReaderListed
    /\ Bound \in {"computeInstance", "computeInstanceIAMPolicy"}
    /\ Cardinality(DOMAIN Upstream) = 2
    /\ \A z \in DOMAIN Upstream : Upstream[z] # << >>

\* the listing each context text of the package speaks of
NamedListing ==
    ( "unable to list instances from reader" :> "ListInstances" ) @@
    ( "unable to list firewalls from reader" :> "ListFirewalls" ) @@
    ( "unable to list networks from reader" :> "ListNetworks" ) @@
    ( "unable to list health checks from reader" :> "ListHealthChecks" ) @@
    ( "unable to list instance groups from reader" :> "ListInstanceGroups" ) @@
    ( "unable to list backend services from reader" :> "ListBackendServices" ) @@
    ( "unable to list URL maps from reader" :> "ListURLMaps" ) @@
    ( "unable to list target http proxies from reader" :> "ListTargetHTTPProxies" ) @@
    ( "unable to list target https proxies from reader" :> "ListTargetHTTPSProxies" ) @@
    ( "unable to list SSL certificates from reader" :> "ListSSLCertificates" ) @@
    ( "unable to list global forwarding rules from reader" :> "ListGlobalForwardingRules" ) @@
    ( "unable to list disks from reader" :> "ListDisks" ) @@
    ( "unable to list sql storage instances rules from reader" :> "ListStorageInstances" ) @@
    ( "unable to list DNS managed zone from reader" :> "ListManagedZones" ) @@
    ( "unable to previously fetch managed zones" :> "ListManagedZones" ) @@
    ( "unable to list resources record se record sett from reader" :> "ListResourceRecordSets" ) @@
    ( "unable to list backend buckets from reader" :> "ListBackendBuckets" ) @@
    ( "unable to list project IAM custom roles from reader" :> "ListProjectIAMCustomRoles" ) @@
    ( "unable to list bucket policies custom roles from reader" :> "ListBuckets" ) @@
    ( "unable to list compute instances from reader" :> "ListInstances" )

\* C7, as claimed: a run whose listing fails returns no resources and a failure
\* whose context speaks of the listing that failed, the last one the run
\* invoked; a text speaks of one listing, so no two strategies failing on
\* different listings attach the same text.
CE_C7 ==
    (Ran(out) /\ out.err # nil)
    => /\ Len(out.resources) = 0
       /\ NamedListing[out.err[1]] = out.calls[Len(out.calls)].method

\* the items of a sequence are pairwise distinct
Distinct(s) == \A i, j \in DOMAIN s : i # j => s[i] # s[j]

\* the listing answered with items distinct within each scope: names within a
\* zone or a flat listing, (name, type) pairs within a zone for record sets
DistinctUpstream ==
    IF Bound \in ScopePartitioned
    THEN \A z \in DOMAIN Upstream : Distinct(Upstream[z])
    ELSE Distinct(Upstream)

CE_C9 ==
    (Ran(prevOut) /\ Ran(out)) => prevOut.resources = out.resources

\* C9, amended: two such runs return the same failure, make the same calls and
\* return the same resources with the same multiplicities; the sequences are
\* equal for the strategies over flat listings, while a scope-partitioned
\* strategy may return the zones in a different order.
T_C9 ==
    (Ran(prevOut) /\ Ran(out))
    => /\ prevOut.err = out.err
       /\ prevOut.calls = out.calls
       /\ Len(prevOut.resources) = Len(out.resources)
       /\ \A id \in Identifiers(prevOut) \cup Identifiers(out) :
            Carrying(prevOut, id) = Carrying(out, id)
       /\ Bound \notin ScopePartitioned => prevOut.resources = out.resources

W_C9 ==
    /\ Ran(prevOut)
    /\ Ran(out)
    /\ Bound \in ScopePartitioned
    /\ out.err = nil
    /\ prevOut.resources # out.resources

\* C10: the dispatch table is the table built at initialisation, binds every
\* declared resource type to a strategy, binds no strategy to two types, and is
\* left as built by every run.
T_C10 ==
    /\ resources = resourcesTable
    /\ DOMAIN resources = ResourceTypes
    /\ \A rt \in ResourceTypes : resources[rt] \in Strategies
    /\ \A a, b \in ResourceTypes : a # b => resources[a] # resources[b]

W_C10 ==
    /\ Ran(prevOut)
    /\ Ran(out)
    /\ req.rt \in DOMAIN resources
    /\ resources[req.rt] = "sqlDatabaseInstance"

====
